---- MODULE Spec2Model ----
(***************************************************************************)
(* Model of the VGL header exporter (io_export_vgl_2_90.py, with the       *)
(* older revision io_export_vgl.py where the two differ).                  *)
(*                                                                         *)
(* Real numbers are exact rationals [num, den] with den > 0.  The inputs   *)
(* are dyadic (den a power of two) with small numerators, so the Python    *)
(* float operations the code performs on them (multiplication by 256.0,    *)
(* 4096.0 or 255.0, sums of weights) are exact, and a float division is    *)
(* correctly rounded: its quotient is a tie exactly when the rational one  *)
(* is, so round() of it equals round() of the rational quotient.           *)
(***************************************************************************)
EXTENDS Integers, Sequences, FiniteSets, TLC

VARIABLES
    \* numeric codec (toExport8F8 / toExport4F12 / toExportS16 / toExportU8)
    codec_op,       \* the argument op, a rational
    codec_fn,       \* which function has been called ("none" before the call)
    codec_ret,      \* the values returned so far: <<f(op)>>, then <<f(op), f(f(op))>>
    \* mesh encoder (meshToString)
    msh,            \* the mesh: vertex_count = len(msh.vertices), polygons, materials
    vgl_export_color,   \* bpy.context.scene.vgl_export_color
    mesh_pc,        \* "idle", "call" (before meshToString) or "done" (after it)
    mesh_subst,     \* the substitutions meshToString built for g_template_mesh
    \* skin weight encoder (meshGetWeightData / normalizedWeightData)
    w_vertices,     \* msh.vertices: each vertex is its list ii.groups of influences
    w_vmap,         \* vmap: vertex group index -> bone index
    w_pc,           \* "idle", "call", "done" (2.90 revision ran) or "done_legacy"
    w_error,        \* the exception the call raised, "none" when it returned
    w_ret,          \* the weight records returned, one per vertex
    \* armature encoder (armatureToString)
    arm,            \* the armature: bones (names in list order) and each bone's children
    arm_pc,         \* "idle", "call" or "done"
    arm_result,     \* what armatureToString returned or raised
    \* export orchestrator (exportAllMeshesToHeader) and animation sampler (animToString)
    scene,          \* the provider's read-only data: mesh, armature, bpy.data.actions
    frame_current,  \* context.scene.frame_current, the provider's playhead
    active_action,  \* arm.animation_data.action: a number in bpy.data.actions, 0 for none
    pc,             \* the position in exportAllMeshesToHeader / animToString
    run,            \* 1 in the first export run, 2 in the second
    export_scale,   \* export_scale, a rational
    amap,           \* getArmatureOrdering(arm.data): the bone names in export order
    vmap,           \* the vertex group map (empty for None and for {})
    action_ii,      \* the number of the action the loop over bpy.data.actions is at
    anim_ret,       \* animToString's ret: the records emitted so far
    anim_data_size, \* animToString's anim_data_size
    export_strings, \* the blocks encoded so far
    ex_error,       \* the exception that aborted the export, "none" otherwise
    file_opened,    \* whether open(filename, "w") has been called in this run
    file_content,   \* what has been written to the file (<<>> when nothing)
    first_output,   \* the file content the first run wrote
    \* templates (Template.format)
    tpl_content,    \* self.__content, a string as the sequence of its characters
    tpl_subst,      \* substitutions: the dict as its (key, value) pairs in iteration order
    tpl_pc,         \* "idle", "call" or "done"
    tpl_ret,        \* the string format returned
    tpl_num,        \* num of the last re.subn: the placeholders the final pass deleted
    tpl_log,        \* the messages printed, in order
    \* block formatting (toExportString)
    es_lst,         \* lst: the records, each a list of integers
    es_data_type,   \* data_type
    es_pc,          \* "idle", "call" or "done"
    es_ret,         \* what toExportString returned or raised
    \* vertex encoder (meshFindMaxVertexValue / meshGetVertexData) and export_scale
    vx_vertices,    \* msh.vertices: each vertex is its co, three coordinates
    vx_mesh_scale,  \* msh.scale
    vx_discard_bits,    \* bpy.context.scene.vgl_export_discard_bits
    vx_pc,          \* "idle", "call", "scaled" (export_scale computed), "done" or "failed"
    vx_export_scale,    \* export_scale, a rational
    vx_error,       \* the exception raised, "none" otherwise
    vx_vdata        \* vdata: the records meshGetVertexData returned

codecVars == <<codec_op, codec_fn, codec_ret>>
meshVars == <<msh, vgl_export_color, mesh_pc, mesh_subst>>
weightVars == <<w_vertices, w_vmap, w_pc, w_error, w_ret>>
armatureVars == <<arm, arm_pc, arm_result>>
exportVars == <<scene, frame_current, active_action, pc, run, export_scale, amap, vmap,
                action_ii, anim_ret, anim_data_size, export_strings, ex_error,
                file_opened, file_content, first_output>>

templateVars == <<tpl_content, tpl_subst, tpl_pc, tpl_ret, tpl_num, tpl_log>>
exportStringVars == <<es_lst, es_data_type, es_pc, es_ret>>
vertexVars == <<vx_vertices, vx_mesh_scale, vx_discard_bits, vx_pc, vx_export_scale,
                vx_error, vx_vdata>>

vars == <<codecVars, meshVars, weightVars, armatureVars, exportVars, templateVars,
          exportStringVars, vertexVars>>

\* the variables each component leaves alone
notCodec == <<meshVars, weightVars, armatureVars, exportVars, templateVars, exportStringVars,
    vertexVars>>
notMesh == <<codecVars, weightVars, armatureVars, exportVars, templateVars, exportStringVars,
    vertexVars>>
notWeight == <<codecVars, meshVars, armatureVars, exportVars, templateVars, exportStringVars,
    vertexVars>>
notArmature == <<codecVars, meshVars, weightVars, exportVars, templateVars, exportStringVars,
    vertexVars>>
notExport == <<codecVars, meshVars, weightVars, armatureVars, templateVars, exportStringVars,
    vertexVars>>
notTemplate == <<codecVars, meshVars, weightVars, armatureVars, exportVars, exportStringVars,
    vertexVars>>
notExportString == <<codecVars, meshVars, weightVars, armatureVars, exportVars, templateVars,
    vertexVars>>
notVertex == <<codecVars, meshVars, weightVars, armatureVars, exportVars, templateVars,
    exportStringVars>>

----------------------------------------------------------------------------
(* Rationals and Python's round()                                          *)

Rat(n, d) == [num |-> n, den |-> d]

\* op * k for an integer k (the float product is exact for the inputs used)
RatMul(op, k) == Rat(op.num * k, op.den)

\* a / b for integers a and b > 0
RatDiv(a, b) == Rat(a, b)

Floor(op) == op.num \div op.den

\* twice the fractional part compared with 1: -1 below half, 0 a tie, 1 above
HalfCmp(op) ==
    LET r == op.num % op.den
    IN  IF 2 * r < op.den THEN -1 ELSE IF 2 * r = op.den THEN 0 ELSE 1

\* round() of Python 3 on a float: to the nearest integer, a tie to the even one
PyRound(op) ==
    CASE HalfCmp(op) = -1 -> Floor(op)
      [] HalfCmp(op) = 1  -> Floor(op) + 1
      [] OTHER            -> IF Floor(op) % 2 = 0 THEN Floor(op) ELSE Floor(op) + 1

Min(a, b) == IF a < b THEN a ELSE b
Max(a, b) == IF a > b THEN a ELSE b

----------------------------------------------------------------------------
(* Numeric codec                                                           *)

toExport8F8(op) == PyRound(RatMul(op, 256))

toExport4F12(op) == PyRound(RatMul(op, 4096))

\* the conversion without the clamp
toExportS16NoClamp(op) == PyRound(op)

toExportS16(op) == Max(Min(PyRound(op), 32767), -32768)

toExportU8(op) == Max(Min(PyRound(op), 255), 0)

\* Bounds of the codec inputs
MaxNum == 5

CodecDens == {1, 2, 512, 8192}

\* values around the clamping limits, as integers and halves
CodecEdges == {255, 32767, 32768}

CodecInputs ==
    {Rat(n, d) : n \in -MaxNum..MaxNum, d \in CodecDens}
    \cup {Rat(s * (c * d + k), d) :
            s \in {-1, 1}, c \in CodecEdges, k \in -MaxNum..MaxNum, d \in {1, 2}}

CodecStart ==
    /\ codec_op \in CodecInputs
    /\ codec_fn = "none"
    /\ codec_ret = <<>>

\* the codec variables of a run that calls no codec function on its own
CodecIdle ==
    /\ codec_op = Rat(0, 1)
    /\ codec_fn = "idle"
    /\ codec_ret = <<>>

CallToExport8F8 ==
    /\ codec_fn = "none"
    /\ codec_fn' = "toExport8F8"
    /\ codec_ret' = <<toExport8F8(codec_op)>>
    /\ UNCHANGED <<codec_op, notCodec>>

CallToExport4F12 ==
    /\ codec_fn = "none"
    /\ codec_fn' = "toExport4F12"
    /\ codec_ret' = <<toExport4F12(codec_op)>>
    /\ UNCHANGED <<codec_op, notCodec>>

CallToExportS16 ==
    /\ codec_fn = "none"
    /\ codec_fn' = "toExportS16"
    /\ codec_ret' = <<toExportS16(codec_op)>>
    /\ UNCHANGED <<codec_op, notCodec>>

CallToExportU8 ==
    /\ codec_fn = "none"
    /\ codec_fn' = "toExportU8"
    /\ codec_ret' = <<toExportU8(codec_op)>>
    /\ UNCHANGED <<codec_op, notCodec>>

\* toExportS16(toExportS16(x)): the function applied to its own result
ReapplyToExportS16 ==
    /\ codec_fn = "toExportS16"
    /\ Len(codec_ret) = 1
    /\ codec_ret' = Append(codec_ret, toExportS16(Rat(codec_ret[1], 1)))
    /\ UNCHANGED <<codec_op, codec_fn, notCodec>>

ReapplyToExportU8 ==
    /\ codec_fn = "toExportU8"
    /\ Len(codec_ret) = 1
    /\ codec_ret' = Append(codec_ret, toExportU8(Rat(codec_ret[1], 1)))
    /\ UNCHANGED <<codec_op, codec_fn, notCodec>>

CodecNext ==
    \/ CallToExport8F8
    \/ CallToExport4F12
    \/ CallToExportS16
    \/ CallToExportU8
    \/ ReapplyToExportS16
    \/ ReapplyToExportU8

----------------------------------------------------------------------------
(* Mesh encoder: triangulation and the index element type                  *)

\* A face is [vertices |-> <<v0, ..., v(n-1)>>, material_index |-> i]; a material
\* slot is [assigned |-> BOOLEAN, diffuse_color |-> <<r, g, b>>] (an empty slot
\* is None in the code).  Python indices are 0-based: vv[idx] is vv[idx + 1] here.

meshIndexDataToTriangle(m, export_color, face, idx1, idx2, idx3) ==
    LET vv == face.vertices
    IN  IF /\ Len(m.materials) > 0
           /\ m.materials[face.material_index + 1].assigned
           /\ export_color
        THEN LET color == m.materials[face.material_index + 1].diffuse_color
                 cr == toExportU8(RatMul(color[1], 255))
                 cg == toExportU8(RatMul(color[2], 255))
                 cb == toExportU8(RatMul(color[3], 255))
             IN  <<vv[idx1 + 1], vv[idx2 + 1], vv[idx3 + 1], cr, cg, cb>>
        ELSE <<vv[idx1 + 1], vv[idx2 + 1], vv[idx3 + 1]>>

\* the inner loop: for jj in range(2, len(ii.vertices))
RECURSIVE FanFrom(_, _, _, _)
FanFrom(m, export_color, face, jj) ==
    IF jj >= Len(face.vertices)
    THEN <<>>
    ELSE <<meshIndexDataToTriangle(m, export_color, face, 0, jj - 1, jj)>>
         \o FanFrom(m, export_color, face, jj + 1)

\* the outer loop, from polygon number ii (1-based) on
RECURSIVE TrianglesFrom(_, _, _)
TrianglesFrom(m, export_color, ii) ==
    IF ii > Len(m.polygons)
    THEN <<>>
    ELSE FanFrom(m, export_color, m.polygons[ii], 2)
         \o TrianglesFrom(m, export_color, ii + 1)

RECURSIVE TrianglesFromShortFan(_, _, _)
TrianglesFromShortFan(m, export_color, ii) ==
    IF ii > Len(m.polygons)
    THEN <<>>
    ELSE FanFrom(m, export_color, m.polygons[ii], 3)
         \o TrianglesFromShortFan(m, export_color, ii + 1)

\* a fan that starts one vertex late: range(3, len(ii.vertices))
meshGetTriangleDataShortFan(m, export_color) == TrianglesFromShortFan(m, export_color, 1)

meshGetTriangleData(m, export_color) == TrianglesFrom(m, export_color, 1)

\* the index part of meshToString: INDEX_DATA, its size and its element type
meshToString(m, export_color) ==
    LET idata == meshGetTriangleData(m, export_color)
    IN  [INDEX_DATA_SIZE |-> Len(idata),
         INDEX_DATA      |-> idata,
         INDEX_DATA_TYPE |-> IF m.vertex_count >= 65536 THEN "uint32_t" ELSE "uint16_t"]

\* Bounds of the mesh inputs
MaxPolys == 2
MaxPolyLen == 5

\* a polygon's vertices: first, first + stride, first + 2 * stride, ...
PolyFirsts == {0, 1}
PolyStrides == {1, 2}

Faces ==
    {[vertices |-> [k \in 1..n |-> f + (k - 1) * st], material_index |-> 0] :
        n \in 3..MaxPolyLen, f \in PolyFirsts, st \in PolyStrides}

RECURSIVE SeqsUpTo(_, _)
SeqsUpTo(S, n) ==
    IF n = 0 THEN {<<>>}
    ELSE LET shorter == SeqsUpTo(S, n - 1)
         IN  shorter \cup {Append(q, x) : q \in {r \in shorter : Len(r) = n - 1}, x \in S}

\* len(msh.vertices): enough for every face above, and around the 16-bit limit
VertexCounts == {2 * MaxPolyLen, 65535, 65536, 65537}

NoMaterial == [assigned |-> FALSE, diffuse_color |-> <<Rat(0, 1), Rat(0, 1), Rat(0, 1)>>]
SomeMaterial == [assigned |-> TRUE, diffuse_color |-> <<Rat(1, 1), Rat(1, 2), Rat(0, 1)>>]

MaterialLists == {<<>>, <<NoMaterial>>, <<SomeMaterial>>}

Meshes ==
    {[vertex_count |-> n, polygons |-> ps, materials |-> ms] :
        n \in VertexCounts, ps \in SeqsUpTo(Faces, MaxPolys), ms \in MaterialLists}

EmptySubst == [INDEX_DATA_SIZE |-> 0, INDEX_DATA |-> <<>>, INDEX_DATA_TYPE |-> ""]

MeshStart ==
    /\ msh \in Meshes
    /\ vgl_export_color \in BOOLEAN
    /\ mesh_pc = "call"
    /\ mesh_subst = EmptySubst

MeshIdle ==
    /\ msh = [vertex_count |-> 0, polygons |-> <<>>, materials |-> <<>>]
    /\ vgl_export_color = FALSE
    /\ mesh_pc = "idle"
    /\ mesh_subst = EmptySubst

MeshToString ==
    /\ mesh_pc = "call"
    /\ mesh_pc' = "done"
    /\ mesh_subst' = meshToString(msh, vgl_export_color)
    /\ UNCHANGED <<msh, vgl_export_color, notMesh>>

MeshNext == MeshToString

----------------------------------------------------------------------------
(* Skin weight encoder                                                     *)

\* An influence is [weight |-> w, group |-> g]: the code's [jj.weight, jj.group].
\* Weights are integers, in units of a fixed negative power of two.

Stub == [weight |-> 0, group |-> 0]

\* for ii in data: ii[1] = vmap[ii[1]]
Remap(data, vm) ==
    [k \in 1..Len(data) |-> [weight |-> data[k].weight, group |-> vm[data[k].group]]]

\* sorted(data, key = weight, reverse = True): stable, so equal weights keep
\* their order.  x goes behind every element whose weight is not smaller.
RECURSIVE InsertDescending(_, _)
InsertDescending(sorted, x) ==
    IF sorted = <<>> THEN <<x>>
    ELSE IF Head(sorted).weight >= x.weight
         THEN <<Head(sorted)>> \o InsertDescending(Tail(sorted), x)
         ELSE <<x>> \o sorted

RECURSIVE InsertAscending(_, _)
InsertAscending(sorted, x) ==
    IF sorted = <<>> THEN <<x>>
    ELSE IF Head(sorted).weight <= x.weight
         THEN <<Head(sorted)>> \o InsertAscending(Tail(sorted), x)
         ELSE <<x>> \o sorted

RECURSIVE SortedAscendingFrom(_, _, _)
SortedAscendingFrom(data, k, acc) ==
    IF k > Len(data) THEN acc
    ELSE SortedAscendingFrom(data, k + 1, InsertAscending(acc, data[k]))

RECURSIVE SortedDescendingFrom(_, _, _)
SortedDescendingFrom(data, k, acc) ==
    IF k > Len(data) THEN acc
    ELSE SortedDescendingFrom(data, k + 1, InsertDescending(acc, data[k]))

\* the sort without reverse = True
SortedByWeightAscending(data) == SortedAscendingFrom(data, 1, <<>>)

SortedByWeight(data) == SortedDescendingFrom(data, 1, <<>>)

\* while 3 > len(data): data += [(0.0, 0)]
RECURSIVE PadTo3(_)
PadTo3(data) == IF 3 > Len(data) THEN PadTo3(Append(data, Stub)) ELSE data

RECURSIVE TotalWeightFrom(_, _)
TotalWeightFrom(data, k) ==
    IF k > Len(data) THEN 0 ELSE data[k].weight + TotalWeightFrom(data, k + 1)

TotalWeight(data) == TotalWeightFrom(data, 1)

\* the last five lines of normalizedWeightData, the same in both revisions;
\* a float division by 0.0 raises ZeroDivisionError
WeightRecord(data) ==
    LET total_weight == TotalWeight(data)
    IN  IF total_weight = 0
        THEN [error |-> "ZeroDivisionError", ret |-> <<>>]
        ELSE LET w1 == toExportU8(RatDiv(data[1].weight * 255, total_weight))
                 w2 == toExportU8(RatDiv(data[2].weight * 255, total_weight))
                 w3 == toExportU8(RatDiv(data[3].weight * 255, total_weight))
             IN  [error |-> "none",
                  ret |-> <<w1, w2, w3, data[1].group, data[2].group, data[3].group>>]

\* io_export_vgl_2_90.py: remap, sort, pad, keep the first three, total those
normalizedWeightData(data, vm) ==
    WeightRecord(SubSeq(PadTo3(SortedByWeight(Remap(data, vm))), 1, 3))

\* io_export_vgl.py: remap, pad, sort, total every influence
normalizedWeightDataLegacy(data, vm) ==
    WeightRecord(SortedByWeight(PadTo3(Remap(data, vm))))

HasNegativeWeight(groups) == \E k \in 1..Len(groups) : 0 > groups[k].weight

\* the loop over msh.vertices, from vertex number ii on, appending to ret
RECURSIVE WeightDataFrom(_, _, _, _, _)
WeightDataFrom(vertices, vm, legacy, ii, ret) ==
    IF ii > Len(vertices) THEN [error |-> "none", ret |-> ret]
    ELSE IF HasNegativeWeight(vertices[ii])
         THEN [error |-> "RuntimeError: invalid vertex weight", ret |-> <<>>]
         ELSE LET rec == IF legacy
                         THEN normalizedWeightDataLegacy(vertices[ii], vm)
                         ELSE normalizedWeightData(vertices[ii], vm)
              IN  IF rec.error # "none"
                  THEN [error |-> rec.error, ret |-> <<>>]
                  ELSE WeightDataFrom(vertices, vm, legacy, ii + 1, Append(ret, rec.ret))

meshGetWeightData(vertices, vm) == WeightDataFrom(vertices, vm, FALSE, 1, <<>>)

meshWeightDataToString(vertices, vm) == WeightDataFrom(vertices, vm, TRUE, 1, <<>>)

\* Bounds of the weight inputs
MaxInfluences == 4
MaxWeight == 3

\* the weights a vertex may carry; -1 is the aberration meshGetWeightData rejects
Weights == -1..MaxWeight

\* a vertex belongs to a group at most once: its n influences name the groups
\* 0..n-1, in ascending or in descending order
InfluenceLists ==
    UNION {{[k \in 1..n |-> [weight |-> ws[k], group |-> IF up THEN k - 1 ELSE n - k]] :
              ws \in [1..n -> Weights], up \in BOOLEAN} : n \in 0..MaxInfluences}

\* a vertex fully bound to group 0
PlainVertex == <<[weight |-> 1, group |-> 0]>>

\* group g is bone g + shift
VMapShifts == {0, 5}

WeightStart ==
    /\ \E v \in InfluenceLists : w_vertices \in {<<v>>, <<PlainVertex, v>>}
    /\ \E shift \in VMapShifts : w_vmap = [g \in 0..MaxInfluences |-> g + shift]
    /\ w_pc = "call"
    /\ w_error = "none"
    /\ w_ret = <<>>

WeightIdle ==
    /\ w_vertices = <<>>
    /\ w_vmap = <<>>
    /\ w_pc = "idle"
    /\ w_error = "none"
    /\ w_ret = <<>>

\* io_export_vgl_2_90.py: wdata = meshGetWeightData(msh, vmap)
MeshGetWeightData ==
    /\ w_pc = "call"
    /\ w_pc' = "done"
    /\ LET r == meshGetWeightData(w_vertices, w_vmap)
       IN  w_error' = r.error /\ w_ret' = r.ret
    /\ UNCHANGED <<w_vertices, w_vmap, notWeight>>

\* io_export_vgl.py: wdata = meshWeightDataToString(msh, vmap)
MeshWeightDataToString ==
    /\ w_pc = "call"
    /\ w_pc' = "done_legacy"
    /\ LET r == meshWeightDataToString(w_vertices, w_vmap)
       IN  w_error' = r.error /\ w_ret' = r.ret
    /\ UNCHANGED <<w_vertices, w_vmap, notWeight>>

WeightNext ==
    \/ MeshGetWeightData
    \/ MeshWeightDataToString

----------------------------------------------------------------------------
(* Armature encoder: the adjacency data                                    *)

\* An armature is [bones |-> <<name, ...>>, children |-> [name |-> <<name, ...>>]];
\* bone names are positive integers.  Indices are 0-based, as in the code.

\* the loop of findBoneIndex, from index ii on
RECURSIVE FindBoneIndexFrom(_, _, _)
FindBoneIndexFrom(a, bone, ii) ==
    IF ii >= Len(a.bones) THEN -1
    ELSE IF a.bones[ii + 1] = bone THEN ii
         ELSE FindBoneIndexFrom(a, bone, ii + 1)

\* an index that counts from 1
findBoneIndexOneBased(a, bone) ==
    LET idx == FindBoneIndexFrom(a, bone, 0) IN IF idx < 0 THEN idx ELSE idx + 1

findBoneIndex(a, bone) == FindBoneIndexFrom(a, bone, 0)

\* the loop over ii.children, from child number k on
RECURSIVE ChildListFrom(_, _, _, _)
ChildListFrom(a, children, k, child_list) ==
    IF k > Len(children) THEN [error |-> "none", child_list |-> child_list]
    ELSE LET idx == findBoneIndex(a, children[k])
         IN  IF 0 > idx
             THEN [error |-> "RuntimeError: could not locate bone index", child_list |-> <<>>]
             ELSE ChildListFrom(a, children, k + 1, Append(child_list, idx))

\* the loop over arm.bones, from bone number ii on
RECURSIVE ArmatureDataFrom(_, _, _, _)
ArmatureDataFrom(a, ii, adata, armature_data_size) ==
    IF ii > Len(a.bones)
    THEN [error |-> "none", adata |-> adata, armature_data_size |-> armature_data_size]
    ELSE LET children == a.children[a.bones[ii]]
             r == ChildListFrom(a, children, 1, <<Len(children)>>)
         IN  IF r.error # "none"
             THEN [error |-> r.error, adata |-> <<>>, armature_data_size |-> 0]
             ELSE ArmatureDataFrom(a, ii + 1, Append(adata, r.child_list),
                                   armature_data_size + 1 + Len(r.child_list))

\* the adjacency part of armatureToString: ARMATURE_DATA and ARMATURE_DATA_SIZE
armatureToString(a) == ArmatureDataFrom(a, 1, <<>>, 0)

\* Bound of the armature inputs
MaxBones == 3

\* the name of a child that is in no bone list (the names in it are 1..n)
StrayBone == MaxBones + 1

Injections(n) == {f \in [1..n -> 1..n] : \A i, j \in 1..n : f[i] = f[j] => i = j}

\* the bones form a forest: a bone's parent has a smaller name, 0 is no parent
Forests(n) == {f \in [1..n -> 0..n] : \A b \in 1..n : f[b] < b}

RECURSIVE ChildrenFrom(_, _, _, _)
ChildrenFrom(parent, n, b, c) ==
    IF c > n THEN <<>>
    ELSE (IF parent[c] = b THEN <<c>> ELSE <<>>) \o ChildrenFrom(parent, n, b, c + 1)

\* the armature with n bones in list order `order`, the hierarchy `parent`, and
\* a stray child under bone `stray` (0: no stray child)
Armature(n, order, parent, stray) ==
    [bones |-> order,
     children |-> [b \in 1..n |->
                      ChildrenFrom(parent, n, b, 1)
                      \o (IF b = stray THEN <<StrayBone>> ELSE <<>>)]]

Armatures ==
    UNION {{Armature(n, order, parent, stray) :
              order \in Injections(n), parent \in Forests(n), stray \in 0..n} :
           n \in 0..MaxBones}

NoResult == [error |-> "none", adata |-> <<>>, armature_data_size |-> 0]

ArmatureStart ==
    /\ arm \in Armatures
    /\ arm_pc = "call"
    /\ arm_result = NoResult

ArmatureIdle ==
    /\ arm = [bones |-> <<>>, children |-> <<>>]
    /\ arm_pc = "idle"
    /\ arm_result = NoResult

ArmatureToString ==
    /\ arm_pc = "call"
    /\ arm_pc' = "done"
    /\ arm_result' = armatureToString(arm)
    /\ UNCHANGED <<arm, notArmature>>

ArmatureNext == ArmatureToString

----------------------------------------------------------------------------
(* Animation sampler and export orchestrator                               *)

SetMax(S) == CHOOSE x \in S : \A y \in S : y <= x
SetMin(S) == CHOOSE x \in S : \A y \in S : x <= y

\* the keyframes bpy.ops.screen.keyframe_jump sees: those of the action
\* assigned to the armature
ActiveKeyframes == IF active_action = 0 THEN {} ELSE scene.actions[active_action]

\* a backward jump that also stops at a keyframe under the playhead
KeyframeJumpTargetSameFrame(next, keys) ==
    LET later == {k \in keys : k > frame_current}
        earlier == {k \in keys : k <= frame_current}
    IN  IF next
        THEN (IF later = {} THEN {} ELSE {SetMin(later)})
        ELSE (IF earlier = {} THEN {} ELSE {SetMax(earlier)})

\* bpy.ops.screen.keyframe_jump(next): the keyframe the playhead jumps to, the
\* nearest one strictly after (next) or strictly before (not next) the playhead;
\* the empty set when there is none and the operator returns {"CANCELLED"}
KeyframeJumpTarget(next, keys) ==
    LET later == {k \in keys : k > frame_current}
        earlier == {k \in keys : k < frame_current}
    IN  IF next
        THEN (IF later = {} THEN {} ELSE {SetMin(later)})
        ELSE (IF earlier = {} THEN {} ELSE {SetMax(earlier)})

vgl_export_discard_bits == 3

\* discard_mul and export_scale; a float division by 0.0 raises ZeroDivisionError
ExportScaleOf(max_vertex_value, discard_bits) ==
    LET discard_mul == 2 ^ discard_bits
    IN  IF max_vertex_value * discard_mul = 0
        THEN [error |-> "ZeroDivisionError", export_scale |-> Rat(0, 1)]
        ELSE [error |-> "none",
              export_scale |-> Rat(32767, max_vertex_value * discard_mul)]

\* meshFindMaxVertexValue is the mesh's max_vertex_value, the discard bits
\* are the property's default
ExportScale(m) == ExportScaleOf(m.max_vertex_value, vgl_export_discard_bits)

\* amap.index(name): the 0-based position of name, -1 for the ValueError
RECURSIVE ListIndexFrom(_, _, _)
ListIndexFrom(lst, x, ii) ==
    IF ii >= Len(lst) THEN -1
    ELSE IF lst[ii + 1] = x THEN ii ELSE ListIndexFrom(lst, x, ii + 1)

getArmatureOrdering(a) == a.bones

\* ret[ii] = amap.index(grp.name) for every vertex group of the mesh
getVertexGroupOrdering(m, am) ==
    LET n == Len(m.vertex_groups)
        ret == [ii \in 0..(n - 1) |-> ListIndexFrom(am, m.vertex_groups[ii + 1], 0)]
    IN  IF \E ii \in 0..(n - 1) : ret[ii] < 0
        THEN [error |-> "ValueError: not in list", vmap |-> <<>>]
        ELSE [error |-> "none", vmap |-> ret]

\* The pose the provider reports for a bone at a frame: the bone keeps its
\* rest orientation (quaternion 1, 0, 0, 0) and its head has moved `frame`
\* mesh units along x.  The record animToString emits for it:
BoneElem(frame, scale) ==
    LET px == toExportS16(Rat(frame * scale.num, scale.den))
        py == toExportS16(Rat(0, 1))
        pz == toExportS16(Rat(0, 1))
        qw == toExport4F12(Rat(1, 1))
        qx == toExport4F12(Rat(0, 1))
        qy == toExport4F12(Rat(0, 1))
        qz == toExport4F12(Rat(0, 1))
    IN  <<px, py, pz, qw, qx, qy, qz>>

\* one pass of the body of the sampling loop up to the jump: the timestamp
\* record and one record per bone of amap
FrameRecords(frame, am, scale) ==
    <<(<<toExport8F8(Rat(frame, 24))>>)>> \o [b \in 1..Len(am) |-> BoneElem(frame, scale)]

Block(kind, size, type, data, weights) ==
    [kind |-> kind, size |-> size, type |-> type, data |-> data, weights |-> weights]

\* the blocks meshToString returns: the index data and, with a non-empty
\* vmap and a mesh that has vertices, the weights
MeshBlock(m, vm) ==
    LET subst == meshToString(m, FALSE)
        wdata == IF DOMAIN vm # {}
                 THEN meshGetWeightData(m.vertices, vm)
                 ELSE [error |-> "none", ret |-> <<>>]
    IN  [error |-> wdata.error,
         block |-> Block("mesh", subst.INDEX_DATA_SIZE, subst.INDEX_DATA_TYPE,
                         subst.INDEX_DATA, wdata.ret)]

\* Bounds of the export inputs
MaxFrame == 2
MaxActions == 2

\* an action is the set of its keyframes
KeyframeSets == SUBSET (1..MaxFrame)

ExportArmatures == {Armature(2, <<2, 1>>, <<0, 1>>, stray) : stray \in {0, 1}}

Quad == [vertices |-> <<0, 1, 2, 3>>, material_index |-> 0]

ExportMesh(groups, influences, maxv) ==
    [vertex_count |-> 4, polygons |-> <<Quad>>, materials |-> <<>>,
     vertex_groups |-> groups, vertices |-> <<PlainVertex, influences>>,
     max_vertex_value |-> maxv]

\* meshes whose vertex groups are named after bone 1, bone 2 or no bone, and
\* whose second vertex is weighted well, to an unresolved group, negatively or
\* not at all; and a mesh with all vertices at the origin
ExportMeshes ==
    {ExportMesh(<<1>>, <<[weight |-> 1, group |-> 0]>>, 1),
     ExportMesh(<<1, StrayBone>>, <<[weight |-> 1, group |-> 0]>>, 1),
     ExportMesh(<<1, StrayBone>>, <<[weight |-> 1, group |-> 1]>>, 1),
     ExportMesh(<<1, 2>>, <<[weight |-> -1, group |-> 1]>>, 1),
     ExportMesh(<<1, 2>>, <<>>, 1),
     ExportMesh(<<>>, <<>>, 1),
     ExportMesh(<<1>>, <<[weight |-> 1, group |-> 0]>>, 0)}

Scenes ==
    {[mesh_found |-> mf, mesh |-> m, armature_found |-> af, armature |-> a, actions |-> acts] :
        mf \in BOOLEAN, m \in ExportMeshes, af \in BOOLEAN, a \in ExportArmatures,
        acts \in SeqsUpTo(KeyframeSets, MaxActions)}

ExportStart ==
    /\ scene \in Scenes
    /\ frame_current \in 0..(MaxFrame + 1)
    /\ active_action = 0
    /\ pc = "findMesh"
    /\ run = 1
    /\ export_scale = Rat(0, 1)
    /\ amap = <<>>
    /\ vmap = <<>>
    /\ action_ii = 0
    /\ anim_ret = <<>>
    /\ anim_data_size = 0
    /\ export_strings = <<>>
    /\ ex_error = "none"
    /\ file_opened = FALSE
    /\ file_content = <<>>
    /\ first_output = <<>>

ExportIdle ==
    /\ scene = [mesh_found |-> FALSE]
    /\ frame_current = 0
    /\ active_action = 0
    /\ pc = "idle"
    /\ run = 1
    /\ export_scale = Rat(0, 1)
    /\ amap = <<>>
    /\ vmap = <<>>
    /\ action_ii = 0
    /\ anim_ret = <<>>
    /\ anim_data_size = 0
    /\ export_strings = <<>>
    /\ ex_error = "none"
    /\ file_opened = FALSE
    /\ file_content = <<>>
    /\ first_output = <<>>

\* raise: the exception leaves exportAllMeshesToHeader
Raise(error) ==
    /\ pc' = "failed"
    /\ ex_error' = error

\* msh = findMesh(context), raise if none; export_scale
FindMesh ==
    /\ pc = "findMesh"
    /\ IF ~scene.mesh_found
       THEN Raise("RuntimeError: could not find mesh to export") /\ UNCHANGED export_scale
       ELSE LET r == ExportScale(scene.mesh)
            IN  IF r.error # "none"
                THEN Raise(r.error) /\ UNCHANGED export_scale
                ELSE pc' = "findArmature" /\ export_scale' = r.export_scale
                     /\ UNCHANGED ex_error
    /\ UNCHANGED <<scene, frame_current, active_action, run, amap, vmap, action_ii,
                   anim_ret, anim_data_size, export_strings, file_opened,
                   file_content, first_output, notExport>>

\* arm = findArmature(context); if arm: amap, armatureToString
ExportArmature ==
    /\ pc = "findArmature"
    /\ IF ~scene.armature_found
       THEN /\ pc' = "vmap"
            /\ UNCHANGED <<amap, export_strings, action_ii, ex_error>>
       ELSE LET r == armatureToString(scene.armature)
            IN  IF r.error # "none"
                THEN Raise(r.error) /\ UNCHANGED <<amap, export_strings, action_ii>>
                ELSE /\ amap' = getArmatureOrdering(scene.armature)
                     /\ export_strings' = Append(export_strings,
                            Block("armature", r.armature_data_size, "uint8_t", r.adata, <<>>))
                     /\ action_ii' = 1
                     /\ pc' = "actions"
                     /\ UNCHANGED ex_error
    /\ UNCHANGED <<scene, frame_current, active_action, run, export_scale, vmap,
                   anim_ret, anim_data_size, file_opened, file_content, first_output,
                   notExport>>

\* for ii in bpy.data.actions: enter animToString, which assigns the action
\* and clears ret; after the last action go on to the mesh
NextAction ==
    /\ pc = "actions"
    /\ IF action_ii > Len(scene.actions)
       THEN /\ pc' = "vmap"
            /\ UNCHANGED <<active_action, anim_ret, anim_data_size>>
       ELSE /\ active_action' = action_ii
            /\ anim_ret' = <<>>
            /\ anim_data_size' = 0
            /\ pc' = "rewind"
    /\ UNCHANGED <<scene, frame_current, run, export_scale, amap, vmap, action_ii,
                   export_strings, ex_error, file_opened, file_content, first_output,
                   notExport>>

\* one pass of the first loop: jump to the previous keyframe, or leave the loop
Rewind ==
    /\ pc = "rewind"
    /\ LET target == KeyframeJumpTarget(FALSE, ActiveKeyframes)
       IN  IF target = {}
           THEN pc' = "sample" /\ UNCHANGED frame_current
           ELSE pc' = "rewind" /\ frame_current' = SetMax(target)
    /\ UNCHANGED <<scene, active_action, run, export_scale, amap, vmap, action_ii,
                   anim_ret, anim_data_size, export_strings, ex_error, file_opened,
                   file_content, first_output, notExport>>

\* one pass of the second loop: emit the current frame, then jump to the next
\* keyframe, or leave the loop
Sample ==
    /\ pc = "sample"
    /\ active_action' = action_ii
    /\ LET recs == FrameRecords(frame_current, amap, export_scale)
       IN  /\ anim_ret' = anim_ret \o recs
           /\ anim_data_size' = anim_data_size + 1 + 7 * Len(amap)
    /\ LET target == KeyframeJumpTarget(TRUE, scene.actions[action_ii])
       IN  IF target = {}
           THEN pc' = "animEnd" /\ UNCHANGED frame_current
           ELSE pc' = "sample" /\ frame_current' = SetMin(target)
    /\ UNCHANGED <<scene, run, export_scale, amap, vmap, action_ii, export_strings,
                   ex_error, file_opened, file_content, first_output, notExport>>

\* the end of animToString: the block is returned and appended
AnimEnd ==
    /\ pc = "animEnd"
    /\ export_strings' = Append(export_strings,
           Block("animation", anim_data_size, "int16_t", anim_ret, <<>>))
    /\ action_ii' = action_ii + 1
    /\ pc' = "actions"
    /\ UNCHANGED <<scene, frame_current, active_action, run, export_scale, amap, vmap,
                   anim_ret, anim_data_size, ex_error, file_opened, file_content,
                   first_output, notExport>>

\* vmap = None; if arm: vmap = getVertexGroupOrdering(msh, amap)
VertexGroupOrdering ==
    /\ pc = "vmap"
    /\ IF ~scene.armature_found
       THEN pc' = "mesh" /\ vmap' = <<>> /\ UNCHANGED ex_error
       ELSE LET r == getVertexGroupOrdering(scene.mesh, amap)
            IN  IF r.error # "none"
                THEN Raise(r.error) /\ UNCHANGED vmap
                ELSE pc' = "mesh" /\ vmap' = r.vmap /\ UNCHANGED ex_error
    /\ UNCHANGED <<scene, frame_current, active_action, run, export_scale, amap,
                   action_ii, anim_ret, anim_data_size, export_strings, file_opened,
                   file_content, first_output, notExport>>

\* export_strings += [meshToString(...)]
ExportMeshBlock ==
    /\ pc = "mesh"
    /\ LET r == MeshBlock(scene.mesh, vmap)
       IN  IF r.error # "none"
           THEN Raise(r.error) /\ UNCHANGED export_strings
           ELSE /\ export_strings' = Append(export_strings, r.block)
                /\ pc' = "write"
                /\ UNCHANGED ex_error
    /\ UNCHANGED <<scene, frame_current, active_action, run, export_scale, amap, vmap,
                   action_ii, anim_ret, anim_data_size, file_opened, file_content,
                   first_output, notExport>>

\* the file is opened before the mesh block has been encoded
WriteFileEarly ==
    /\ pc \in {"mesh", "write"}
    /\ file_opened' = TRUE
    /\ file_content' = export_strings
    /\ pc' = "done"
    /\ UNCHANGED <<scene, frame_current, active_action, run, export_scale, amap, vmap,
                   action_ii, anim_ret, anim_data_size, export_strings, ex_error,
                   first_output, notExport>>

\* with open(filename, "w") as fd: fd.write(...)
WriteFile ==
    /\ pc = "write"
    /\ file_opened' = TRUE
    /\ file_content' = export_strings
    /\ pc' = "done"
    /\ UNCHANGED <<scene, frame_current, active_action, run, export_scale, amap, vmap,
                   action_ii, anim_ret, anim_data_size, export_strings, ex_error,
                   first_output, notExport>>

\* the operator is run again on the same scene: the locals are fresh, the
\* provider's playhead and active action are as the first run left them
ExportAgain ==
    /\ pc = "done"
    /\ run = 1
    /\ run' = 2
    /\ first_output' = file_content
    /\ pc' = "findMesh"
    /\ export_scale' = Rat(0, 1)
    /\ amap' = <<>>
    /\ vmap' = <<>>
    /\ action_ii' = 0
    /\ anim_ret' = <<>>
    /\ anim_data_size' = 0
    /\ export_strings' = <<>>
    /\ file_opened' = FALSE
    /\ file_content' = <<>>
    /\ UNCHANGED <<scene, frame_current, active_action, ex_error, notExport>>

\* the state in which exportAllMeshesToHeader enters the loop over
\* bpy.data.actions: the mesh found, the armature encoded
\* (the sampler reads nothing of the mesh but export_scale: one mesh will do)
SamplerScenes ==
    {sc \in Scenes : /\ sc.mesh_found
                     /\ sc.armature_found
                     /\ sc.mesh = ExportMesh(<<1>>, <<[weight |-> 1, group |-> 0]>>, 1)
                     /\ armatureToString(sc.armature).error = "none"}

SamplerStart ==
    /\ scene \in SamplerScenes
    /\ frame_current \in 0..(MaxFrame + 1)
    /\ active_action = 0
    /\ pc = "actions"
    /\ run = 1
    /\ export_scale = ExportScale(scene.mesh).export_scale
    /\ amap = getArmatureOrdering(scene.armature)
    /\ vmap = <<>>
    /\ action_ii = 1
    /\ anim_ret = <<>>
    /\ anim_data_size = 0
    /\ export_strings =
         <<Block("armature", armatureToString(scene.armature).armature_data_size,
                 "uint8_t", armatureToString(scene.armature).adata, <<>>)>>
    /\ ex_error = "none"
    /\ file_opened = FALSE
    /\ file_content = <<>>
    /\ first_output = <<>>

\* keyframes early and late in a long animation: frame 1, and the frames just
\* before and at 128 seconds (24 frames a second, line 454)
LateFrames == {1, 128 * 24 - 1, 128 * 24}

LateKeyframeSets == SUBSET LateFrames

\* the scenes of SamplerScenes with long actions
LateSamplerScenes ==
    {[sc EXCEPT !.actions = acts] :
        sc \in {s \in SamplerScenes : s.actions = <<>>},
        acts \in SeqsUpTo(LateKeyframeSets, MaxActions)}

\* SamplerStart for a long animation, the playhead before or behind every keyframe
LateSamplerStart ==
    /\ scene \in LateSamplerScenes
    /\ frame_current \in {0, 128 * 24 + 1}
    /\ active_action = 0
    /\ pc = "actions"
    /\ run = 1
    /\ export_scale = ExportScale(scene.mesh).export_scale
    /\ amap = getArmatureOrdering(scene.armature)
    /\ vmap = <<>>
    /\ action_ii = 1
    /\ anim_ret = <<>>
    /\ anim_data_size = 0
    /\ export_strings =
         <<Block("armature", armatureToString(scene.armature).armature_data_size,
                 "uint8_t", armatureToString(scene.armature).adata, <<>>)>>
    /\ ex_error = "none"
    /\ file_opened = FALSE
    /\ file_content = <<>>
    /\ first_output = <<>>

SamplerNext ==
    \/ NextAction
    \/ Rewind
    \/ Sample
    \/ AnimEnd

Next ==
    \/ FindMesh
    \/ ExportArmature
    \/ NextAction
    \/ Rewind
    \/ Sample
    \/ AnimEnd
    \/ VertexGroupOrdering
    \/ ExportMeshBlock
    \/ WriteFile
    \/ ExportAgain

----------------------------------------------------------------------------
(* Templates: Template.format                                              *)
(*                                                                         *)
(* A string is the sequence of its characters.  The keys are plain names   *)
(* (no character that is special in a regular expression), as all keys the *)
(* exporter passes are.                                                    *)

is_verbose == FALSE

\* whether string s holds string t at position ii (1-based)
StartsWith(s, ii, t) ==
    /\ ii + Len(t) - 1 <= Len(s)
    /\ \A k \in 1..Len(t) : s[ii + k - 1] = t[k]

\* \s*: the position after the white space that starts at ii
RECURSIVE SkipSpaces(_, _)
SkipSpaces(s, ii) ==
    IF ii <= Len(s) /\ s[ii] = " " THEN SkipSpaces(s, ii + 1) ELSE ii

\* [^\]]+: the position of the first "]" at or after ii, Len(s) + 1 without one
RECURSIVE SkipToBracket(_, _)
SkipToBracket(s, ii) ==
    IF ii <= Len(s) /\ s[ii] # "]" THEN SkipToBracket(s, ii + 1) ELSE ii

\* r'\[\[\s*%s\s*\]\]' % (kk) matched at position ii: the position after the
\* match, 0 for no match
MatchKey(s, ii, kk) ==
    IF ~StartsWith(s, ii, <<"[", "[">>) THEN 0
    ELSE LET jj == SkipSpaces(s, ii + 2)
         IN  IF ~StartsWith(s, jj, kk) THEN 0
             ELSE LET ee == SkipSpaces(s, jj + Len(kk))
                  IN  IF StartsWith(s, ee, <<"]", "]">>) THEN ee + 2 ELSE 0

\* r'\[\[[^\]]+\]\]' matched at position ii: the position after the match, 0
\* for no match
MatchAny(s, ii) ==
    IF ~StartsWith(s, ii, <<"[", "[">>) THEN 0
    ELSE LET ee == SkipToBracket(s, ii + 2)
         IN  IF ee > ii + 2 /\ StartsWith(s, ee, <<"]", "]">>) THEN ee + 2 ELSE 0

\* the pattern of a key is the key's name, the pattern of the final pass is <<>>
Match(s, ii, pat) == IF pat = <<>> THEN MatchAny(s, ii) ELSE MatchKey(s, ii, pat)

\* substitutions[kk].replace("\\", "\\\\")
RECURSIVE EscapeBackslashes(_)
EscapeBackslashes(vv) ==
    IF vv = <<>> THEN <<>>
    ELSE IF Head(vv) = "\\" THEN <<"\\", "\\">> \o EscapeBackslashes(Tail(vv))
    ELSE <<Head(vv)>> \o EscapeBackslashes(Tail(vv))

\* what re.subn inserts for the replacement template repl: a backslash
\* followed by a backslash stands for one backslash
RECURSIVE ExpandTemplate(_)
ExpandTemplate(repl) ==
    IF repl = <<>> THEN <<>>
    ELSE IF Len(repl) >= 2 /\ repl[1] = "\\" /\ repl[2] = "\\"
         THEN <<"\\">> \o ExpandTemplate(SubSeq(repl, 3, Len(repl)))
    ELSE <<Head(repl)>> \o ExpandTemplate(Tail(repl))

\* re.subn(pattern, repl, s) from position ii on: the leftmost matches, not
\* overlapping, are replaced; the new string and the number of replacements
RECURSIVE SubnFrom(_, _, _, _)
SubnFrom(s, ii, pat, repl) ==
    IF ii > Len(s) THEN [ret |-> <<>>, num |-> 0]
    ELSE LET ee == Match(s, ii, pat)
         IN  IF ee # 0
             THEN LET rest == SubnFrom(s, ee, pat, repl)
                  IN  [ret |-> ExpandTemplate(repl) \o rest.ret, num |-> rest.num + 1]
             ELSE LET rest == SubnFrom(s, ii + 1, pat, repl)
                  IN  [ret |-> <<s[ii]>> \o rest.ret, num |-> rest.num]

\* set(re.findall(r'\[\[([^\]]+)\]\]', s)) from position ii on: the names
\* between the brackets of the matches
RECURSIVE FindallFrom(_, _)
FindallFrom(s, ii) ==
    IF ii > Len(s) THEN {}
    ELSE LET ee == MatchAny(s, ii)
         IN  IF ee # 0
             THEN {SubSeq(s, ii + 2, ee - 3)} \cup FindallFrom(s, ee)
             ELSE FindallFrom(s, ii + 1)

\* for kk in substitutions, from pair number k on
RECURSIVE SubstituteFrom(_, _, _, _)
SubstituteFrom(ret, substitutions, k, log) ==
    IF k > Len(substitutions) THEN [ret |-> ret, log |-> log]
    ELSE LET kk == substitutions[k][1]
             vv == EscapeBackslashes(substitutions[k][2])
             r == SubnFrom(ret, 1, kk, vv)
             warned == IF r.num = 0
                       THEN Append(log, [msg |-> "WARNING: substitution has no matches",
                                         names |-> {kk}])
                       ELSE log
         IN  SubstituteFrom(r.ret, substitutions, k + 1, warned)

format(content, substitutions) ==
    LET subst == SubstituteFrom(content, substitutions, 1, <<>>)
        unmatched == FindallFrom(subst.ret, 1)
        r == SubnFrom(subst.ret, 1, <<>>, <<>>)
    IN  [ret |-> r.ret,
         num |-> r.num,
         log |-> IF r.num # 0 /\ is_verbose
                 THEN Append(subst.log, [msg |-> "Template substitutions not matched",
                                         names |-> unmatched])
                 ELSE subst.log]

\* Bounds of the template inputs
MaxSegments == 3

PlaceholderA == <<"[", "[", "A", "]", "]">>
PlaceholderB == <<"[", "[", "B", "]", "]">>
PlaceholderSpacedA == <<"[", "[", " ", "A", " ", "]", "]">>

\* a template is up to MaxSegments pieces, each plain text or a placeholder
TemplateSegments == {<<"x">>, PlaceholderA, PlaceholderSpacedA, PlaceholderB}

RECURSIVE Concatenations(_, _)
Concatenations(S, n) ==
    IF n = 0 THEN {<<>>}
    ELSE LET shorter == Concatenations(S, n - 1)
         IN  shorter \cup {t \o seg : t \in shorter, seg \in S}

\* values: empty, plain text, a backslash, a backslash before a digit, and
\* text that itself reads as a placeholder
TemplateValues == {<<>>, <<"y">>, <<"\\">>, <<"\\", "1">>, PlaceholderA, PlaceholderB}

TemplateKeys == {<<"A">>, <<"B">>}

\* None or {}, one key, or both keys in either order
SubstitutionDicts ==
    {<<>>}
    \cup {<<(<<kk, vv>>)>> : kk \in TemplateKeys, vv \in TemplateValues}
    \cup {d \in {<<(<<k1, v1>>), (<<k2, v2>>)>> :
                    k1 \in TemplateKeys, k2 \in TemplateKeys,
                    v1 \in TemplateValues, v2 \in TemplateValues} : d[1][1] # d[2][1]}

TemplateStart ==
    /\ tpl_content \in Concatenations(TemplateSegments, MaxSegments)
    /\ tpl_subst \in SubstitutionDicts
    /\ tpl_pc = "call"
    /\ tpl_ret = <<>>
    /\ tpl_num = 0
    /\ tpl_log = <<>>

TemplateIdle ==
    /\ tpl_content = <<>>
    /\ tpl_subst = <<>>
    /\ tpl_pc = "idle"
    /\ tpl_ret = <<>>
    /\ tpl_num = 0
    /\ tpl_log = <<>>

TemplateFormat ==
    /\ tpl_pc = "call"
    /\ tpl_pc' = "done"
    /\ LET r == format(tpl_content, tpl_subst)
       IN  tpl_ret' = r.ret /\ tpl_num' = r.num /\ tpl_log' = r.log
    /\ UNCHANGED <<tpl_content, tpl_subst, notTemplate>>

TemplateNext == TemplateFormat

----------------------------------------------------------------------------
(* Block formatting: toExportString                                        *)

\* total_count: the number of elements of the records from number k on
RECURSIVE TotalCountFrom(_, _)
TotalCountFrom(lst, k) ==
    IF k > Len(lst) THEN 0 ELSE Len(lst[k]) + TotalCountFrom(lst, k + 1)

\* the remainder with a 4 left as it is
RemainderNoReset(total_count, data_type) ==
    CASE data_type \in {"uint8_t", "int8_t"} -> 4 - (total_count % 4)
      [] data_type \in {"uint16_t", "int16_t"} -> total_count % 2
      [] data_type \in {"uint32_t", "int32_t", "uint64_t", "int64_t", "float", "double"} -> 0
      [] OTHER -> -1

\* remainder, the number of zeros to append; -1 for an unknown data type
Remainder(total_count, data_type) ==
    CASE data_type \in {"uint8_t", "int8_t"} ->
             (IF 4 - (total_count % 4) = 4 THEN 0 ELSE 4 - (total_count % 4))
      [] data_type \in {"uint16_t", "int16_t"} -> total_count % 2
      [] data_type \in {"uint32_t", "int32_t", "uint64_t", "int64_t", "float", "double"} -> 0
      [] OTHER -> -1

\* a line of the returned string: a line of values, each followed by a comma,
\* or a preprocessor line
DataLine(values) == [text |-> "values", values |-> values]
DirectiveLine(text) == [text |-> text, values |-> <<>>]

toExportString(lst, data_type) ==
    LET total_count == TotalCountFrom(lst, 1)
        remainder == Remainder(total_count, data_type)
        ret == [k \in 1..Len(lst) |-> DataLine(lst[k])]
    IN  IF remainder < 0
        THEN [error |-> "RuntimeError: unknown data type", ret |-> <<>>]
        ELSE IF remainder # 0
        THEN [error |-> "none",
              ret |-> ret \o <<DirectiveLine("#if defined(__x86_64__) || defined(__i386__)"),
                                DataLine([k \in 1..remainder |-> 0]),
                                DirectiveLine("#endif")>>]
        ELSE [error |-> "none", ret |-> ret]

\* Bounds of the block inputs
MaxRecords == 3
MaxRecordLen == 4

DataTypes ==
    {"uint8_t", "int8_t", "uint16_t", "int16_t", "uint32_t", "int32_t", "uint64_t",
     "int64_t", "float", "double", "char"}

\* records of 0..MaxRecordLen elements; the elements' values play no part
ExportRecords == {[k \in 1..n |-> 7] : n \in 0..MaxRecordLen}

ExportStringStart ==
    /\ es_lst \in SeqsUpTo(ExportRecords, MaxRecords)
    /\ es_data_type \in DataTypes
    /\ es_pc = "call"
    /\ es_ret = <<>>

ToExportString ==
    /\ es_pc = "call"
    /\ es_pc' = "done"
    /\ es_ret' = toExportString(es_lst, es_data_type)
    /\ UNCHANGED <<es_lst, es_data_type, notExportString>>

ExportStringNext == ToExportString

ExportStringIdle ==
    /\ es_lst = <<>>
    /\ es_data_type = "none"
    /\ es_pc = "idle"
    /\ es_ret = <<>>

----------------------------------------------------------------------------
(* Vertex encoder: meshFindMaxVertexValue, export_scale, meshGetVertexData *)
(*                                                                         *)
(* Coordinates are floats with integer values n * u, u in CoordUnits.  The *)
(* products co * mesh_scale and max * discard_mul are exact.  The quotient *)
(* 32767.0 / (max * discard_mul) and the product with it are each rounded  *)
(* to a double, so the product is the exact value a * 32767 / (max *       *)
(* discard_mul), or a double within two units in the last place below or   *)
(* above it.  Such a difference shows in round() only when the exact value *)
(* is a tie, and then only its direction does; the model keeps the exact   *)
(* value moved by 1 / (4 * denominator), too little to cross any other     *)
(* rounding boundary, in the direction IEEE 754 double arithmetic gives    *)
(* for the operands.                                                       *)

Abs(x) == IF x < 0 THEN -x ELSE x

\* the loop of meshFindMaxVertexValue, from vertex number k on
RECURSIVE MaxVertexValueFrom(_, _, _, _)
MaxVertexValueFrom(vertices, mesh_scale, k, ret) ==
    IF k > Len(vertices) THEN ret
    ELSE LET px == Abs(vertices[k][1] * mesh_scale[1])
             py == Abs(vertices[k][2] * mesh_scale[2])
             pz == Abs(vertices[k][3] * mesh_scale[3])
         IN  MaxVertexValueFrom(vertices, mesh_scale, k + 1, Max(Max(Max(px, py), pz), ret))

\* the greatest coordinate before the mesh scale is applied
meshFindMaxVertexValueUnscaled(vertices, mesh_scale) ==
    MaxVertexValueFrom(vertices, <<1, 1, 1>>, 1, 0)

meshFindMaxVertexValue(vertices, mesh_scale) ==
    MaxVertexValueFrom(vertices, mesh_scale, 1, 0)

RECURSIVE OddPart(_)
OddPart(n) == IF n % 2 = 0 THEN OddPart(n \div 2) ELSE n

\* whether the double a * (32767.0 / (m * 2^bits)) is above (1), below (-1)
\* or equal to (0) the exact value, for a, m > 0.  Scaling an operand by a
\* power of two changes nothing, so the odd parts of a and m decide; the
\* table holds the outcomes of IEEE 754 double arithmetic for the odd parts
\* the inputs below give rise to.
FloatDirection(a, m) ==
    LET key == <<OddPart(a), OddPart(m)>>
    IN  CASE key \in {<<1, 3>>, <<41, 41>>} -> 1
          [] key \in {<<41, 123>>, <<123, 123>>, <<49, 49>>, <<49, 147>>} -> -1
          [] key \in {<<1, 1>>, <<3, 1>>, <<3, 3>>, <<123, 41>>, <<147, 49>>,
                      <<147, 147>>} -> 0

\* the double a * export_scale for an integer a
FloatMul(a, es) ==
    IF a = 0 THEN Rat(0, 1)
    ELSE LET dir == FloatDirection(Abs(a), es.den)
             sign == IF a < 0 THEN -1 ELSE 1
         IN  Rat(4 * a * es.num + sign * dir, 4 * es.den)

meshGetVertexData(vertices, mesh_scale, es) ==
    [k \in 1..Len(vertices) |->
        <<toExportS16(FloatMul(vertices[k][1] * mesh_scale[1], es)),
          toExportS16(FloatMul(vertices[k][2] * mesh_scale[2], es)),
          toExportS16(FloatMul(vertices[k][3] * mesh_scale[3], es))>>]

\* Bounds of the vertex inputs
MaxCoord == 2
MaxDiscardBits == 3

\* the unit of a mesh's coordinates: 1, and two for which the doubles above
\* are inexact in either direction
CoordUnits == {1, 41, 49}

MeshScales == {<<1, 1, 1>>, <<2, 1, 1>>}

VertexStart ==
    /\ \E u \in CoordUnits, v \in [1..3 -> -MaxCoord..MaxCoord] :
         LET co == <<v[1] * u, v[2] * u, v[3] * u>>
         IN  vx_vertices \in {<<co>>, <<co, <<u, 0, 0>>>>}
    /\ vx_mesh_scale \in MeshScales
    /\ vx_discard_bits \in 0..MaxDiscardBits
    /\ vx_pc = "call"
    /\ vx_export_scale = Rat(0, 1)
    /\ vx_error = "none"
    /\ vx_vdata = <<>>

VertexIdle ==
    /\ vx_vertices = <<>>
    /\ vx_mesh_scale = <<1, 1, 1>>
    /\ vx_discard_bits = 0
    /\ vx_pc = "idle"
    /\ vx_export_scale = Rat(0, 1)
    /\ vx_error = "none"
    /\ vx_vdata = <<>>

\* discard_mul = pow(2.0, ...); export_scale = 32767.0 / (max * discard_mul)
ComputeExportScale ==
    /\ vx_pc = "call"
    /\ LET r == ExportScaleOf(meshFindMaxVertexValue(vx_vertices, vx_mesh_scale),
                              vx_discard_bits)
       IN  IF r.error # "none"
           THEN vx_pc' = "failed" /\ vx_error' = r.error /\ UNCHANGED vx_export_scale
           ELSE vx_pc' = "scaled" /\ vx_export_scale' = r.export_scale /\ UNCHANGED vx_error
    /\ UNCHANGED <<vx_vertices, vx_mesh_scale, vx_discard_bits, vx_vdata, notVertex>>

\* vdata = meshGetVertexData(msh, mesh_scale, export_scale)
MeshGetVertexData ==
    /\ vx_pc = "scaled"
    /\ vx_pc' = "done"
    /\ vx_vdata' = meshGetVertexData(vx_vertices, vx_mesh_scale, vx_export_scale)
    /\ UNCHANGED <<vx_vertices, vx_mesh_scale, vx_discard_bits, vx_export_scale, vx_error,
                   notVertex>>

VertexNext ==
    \/ ComputeExportScale
    \/ MeshGetVertexData

----------------------------------------------------------------------------
(* Specifications: each draws the inputs of one component and applies it   *)

InitCodec ==
    CodecStart /\ MeshIdle /\ WeightIdle /\ ArmatureIdle /\ ExportIdle /\ TemplateIdle
        /\ ExportStringIdle /\ VertexIdle

SpecCodec == InitCodec /\ [][CodecNext]_vars

InitMesh ==
    MeshStart /\ CodecIdle /\ WeightIdle /\ ArmatureIdle /\ ExportIdle /\ TemplateIdle
        /\ ExportStringIdle /\ VertexIdle

SpecMesh == InitMesh /\ [][MeshNext]_vars

InitWeights ==
    WeightStart /\ CodecIdle /\ MeshIdle /\ ArmatureIdle /\ ExportIdle /\ TemplateIdle
        /\ ExportStringIdle /\ VertexIdle

SpecWeights == InitWeights /\ [][WeightNext]_vars

InitArmature ==
    ArmatureStart /\ CodecIdle /\ MeshIdle /\ WeightIdle /\ ExportIdle /\ TemplateIdle
        /\ ExportStringIdle /\ VertexIdle

SpecArmature == InitArmature /\ [][ArmatureNext]_vars

\* one export run, and a second one on the state the first left behind
Init ==
    ExportStart /\ CodecIdle /\ MeshIdle /\ WeightIdle /\ ArmatureIdle /\ TemplateIdle
        /\ ExportStringIdle /\ VertexIdle

Spec == Init /\ [][Next]_vars

\* the animation part of one export: the loop over bpy.data.actions, entered
\* after the armature has been encoded
InitSampler ==
    SamplerStart /\ CodecIdle /\ MeshIdle /\ WeightIdle /\ ArmatureIdle /\ TemplateIdle
        /\ ExportStringIdle /\ VertexIdle

\* the export is a sequential program: while a step is possible one is taken
SpecSampler == InitSampler /\ [][SamplerNext]_vars /\ WF_vars(SamplerNext)

\* the same loop over actions whose keyframes lie up to 128 seconds in
InitLateSampler ==
    LateSamplerStart /\ CodecIdle /\ MeshIdle /\ WeightIdle /\ ArmatureIdle /\ TemplateIdle
        /\ ExportStringIdle /\ VertexIdle

SpecLateSampler == InitLateSampler /\ [][SamplerNext]_vars

InitTemplate ==
    TemplateStart /\ CodecIdle /\ MeshIdle /\ WeightIdle /\ ArmatureIdle /\ ExportIdle
        /\ ExportStringIdle /\ VertexIdle

SpecTemplate == InitTemplate /\ [][TemplateNext]_vars

InitExportString ==
    ExportStringStart /\ CodecIdle /\ MeshIdle /\ WeightIdle /\ ArmatureIdle /\ ExportIdle
        /\ TemplateIdle /\ VertexIdle

SpecExportString == InitExportString /\ [][ExportStringNext]_vars

InitVertices ==
    VertexStart /\ CodecIdle /\ MeshIdle /\ WeightIdle /\ ArmatureIdle /\ ExportIdle
        /\ TemplateIdle /\ ExportStringIdle

SpecVertices == InitVertices /\ [][VertexNext]_vars

----------------------------------------------------------------------------
(* Claims about the numeric codec                                          *)

\* the value the called function rounds: op * 256, op * 4096 or op itself
CodecScaled ==
    CASE codec_fn = "toExport8F8"  -> RatMul(codec_op, 256)
      [] codec_fn = "toExport4F12" -> RatMul(codec_op, 4096)
      [] OTHER                     -> codec_op

IsTie(op) == HalfCmp(op) = 0

\* the neighbour of a tie that is farther from zero
AwayFromZero(op) == IF op.num > 0 THEN Floor(op) + 1 ELSE Floor(op)

ClampOf(fn, v) ==
    CASE fn = "toExportS16" -> Max(Min(v, 32767), -32768)
      [] fn = "toExportU8"  -> Max(Min(v, 255), 0)
      [] OTHER              -> v

\* C1: every codec function rounds an input that lies exactly halfway between
\* two integers (after scaling, before clamping) to the neighbour farther from
\* zero, never to the even neighbour.
C1_TiesRoundAwayFromZero ==
    (codec_fn # "none" /\ IsTie(CodecScaled))
        => codec_ret[1] = ClampOf(codec_fn, AwayFromZero(CodecScaled))

\* C2: toExportS16 returns an integer in [-32768, 32767] and toExportU8 one in
\* [0, 255] for every input, and applying either to its own result returns
\* that result.
C2_ClampedAndIdempotent ==
    /\ codec_fn = "toExportS16" =>
          /\ codec_ret[1] \in -32768..32767
          /\ Len(codec_ret) = 2 => codec_ret[2] = codec_ret[1]
    /\ codec_fn = "toExportU8" =>
          /\ codec_ret[1] \in 0..255
          /\ Len(codec_ret) = 2 => codec_ret[2] = codec_ret[1]

\* C2 witness: an input above the signed 16-bit range has been clamped to
\* 32767 and toExportS16 applied again to that result.
C2_Witness ==
    /\ codec_fn = "toExportS16"
    /\ codec_op.num > 32767 * codec_op.den
    /\ codec_ret = <<32767, 32767>>

----------------------------------------------------------------------------
(* Claims about the mesh encoder                                           *)

\* the number of triangles the polygons before number p contribute
RECURSIVE TrianglesBefore(_, _)
TrianglesBefore(ps, p) ==
    IF p <= 1 THEN 0 ELSE TrianglesBefore(ps, p - 1) + (Len(ps[p - 1].vertices) - 2)

\* C3: a polygon with n >= 3 vertices yields exactly n - 2 triangles, the i-th
\* (i = 2..n-1) being (v0, v(i-1), v(i)), a 3-vertex polygon yields its own
\* vertices in input order, and the triangles of different polygons appear in
\* polygon order.
C3_FanTriangulation ==
    mesh_pc = "done" =>
        LET ps == msh.polygons
            idata == mesh_subst.INDEX_DATA
        IN  /\ Len(idata) = TrianglesBefore(ps, Len(ps) + 1)
            /\ \A p \in 1..Len(ps) :
                 LET v == ps[p].vertices
                 IN  /\ \A i \in 2..(Len(v) - 1) :
                          SubSeq(idata[TrianglesBefore(ps, p) + i - 1], 1, 3)
                              = <<v[1], v[i], v[i + 1]>>
                     /\ Len(v) = 3 =>
                          SubSeq(idata[TrianglesBefore(ps, p) + 1], 1, 3) = v

\* C3 witness: a five-vertex polygon followed by a triangle has been
\* triangulated into four triangles.
C3_Witness ==
    /\ mesh_pc = "done"
    /\ Len(msh.polygons) = 2
    /\ Len(msh.polygons[1].vertices) = 5
    /\ Len(msh.polygons[2].vertices) = 3
    /\ Len(mesh_subst.INDEX_DATA) = 4

\* C4: the index element type is the narrowest of uint16_t and uint32_t that
\* can represent vertexCount - 1: uint16_t whenever vertexCount - 1 <= 65535
\* (vertexCount = 65536 included), uint32_t only above that.
C4_NarrowestIndexType ==
    mesh_pc = "done" =>
        mesh_subst.INDEX_DATA_TYPE =
            (IF msh.vertex_count - 1 <= 65535 THEN "uint16_t" ELSE "uint32_t")

----------------------------------------------------------------------------
(* Claims about the skin weight encoder                                    *)

\* the influence list has non-negative weights and a positive total
NonNegativeWithPositiveTotal(groups) ==
    /\ ~HasNegativeWeight(groups)
    /\ \E k \in 1..Len(groups) : groups[k].weight > 0

WeightBytesWithin(rec, lo, hi) ==
    /\ lo <= rec[1] + rec[2] + rec[3]
    /\ rec[1] + rec[2] + rec[3] <= hi
    /\ rec[1] >= rec[2]
    /\ rec[2] >= rec[3]

C6_ZeroTotalYieldsZeroWeights ==
    (w_pc = "done" /\ \A i \in 1..Len(w_vertices) : ~HasNegativeWeight(w_vertices[i]))
        => /\ w_error = "none"
           /\ Len(w_ret) = Len(w_vertices)
           /\ \A i \in 1..Len(w_ret) :
                TotalWeight(w_vertices[i]) = 0 => SubSeq(w_ret[i], 1, 3) = <<0, 0, 0>>

----------------------------------------------------------------------------
(* Claims about the armature encoder                                       *)

\* the position of a bone in the armature's bone list, counted from 0
PositionOf(a, bone) == CHOOSE j \in 0..(Len(a.bones) - 1) : a.bones[j + 1] = bone

InBoneList(a, bone) == \E j \in 1..Len(a.bones) : a.bones[j] = bone

AllChildrenListed(a) ==
    \A i \in 1..Len(a.bones) :
        \A k \in 1..Len(a.children[a.bones[i]]) : InBoneList(a, a.children[a.bones[i]][k])

\* C7: the adjacency data has one record per bone in bone-list order, each
\* [number of children, index of child 1, index of child 2, ...] with every
\* index the child's position in the bone list; a child that is not in the
\* bone list makes the export raise instead of emitting a record.
C7_AdjacencyRecords ==
    arm_pc = "done" =>
        IF AllChildrenListed(arm)
        THEN /\ arm_result.error = "none"
             /\ Len(arm_result.adata) = Len(arm.bones)
             /\ \A i \in 1..Len(arm.bones) :
                  LET children == arm.children[arm.bones[i]]
                  IN  arm_result.adata[i] =
                        <<Len(children)>>
                        \o [k \in 1..Len(children) |-> PositionOf(arm, children[k])]
        ELSE /\ arm_result.error = "RuntimeError: could not locate bone index"
             /\ arm_result.adata = <<>>

\* C7 witness: an armature of three bones, one of them with two children, has
\* been encoded without an error.
C7_Witness ==
    /\ arm_pc = "done"
    /\ arm_result.error = "none"
    /\ Len(arm.bones) = 3
    /\ \E i \in 1..3 : Len(arm_result.adata[i]) = 3

----------------------------------------------------------------------------
(* Claims about the animation sampler and the export                       *)

\* the keyframes of an action in ascending order
RECURSIVE Ascending(_)
Ascending(S) ==
    IF S = {} THEN <<>> ELSE <<SetMin(S)>> \o Ascending(S \ {SetMin(S)})

\* the timestamp records among the records animToString emitted
IsTimestampRecord(rec) == Len(rec) = 1

TimestampsOf(keys) ==
    LET frames == Ascending(keys)
    IN  [i \in 1..Len(frames) |-> <<toExport8F8(Rat(frames[i], 24))>>]

\* C8: for an action with at least one keyframe and any initial playhead,
\* animToString emits exactly one frame record per keyframe: the first
\* timestamp is the first keyframe, the timestamps ascend, and no frame is
\* emitted at a time that is not a keyframe.
C8_OneFramePerKeyframe ==
    (pc = "animEnd" /\ scene.actions[action_ii] # {})
        => SelectSeq(anim_ret, IsTimestampRecord) = TimestampsOf(scene.actions[action_ii])

\* C9: for an action with no keyframes animToString emits a block of size 0
\* with an empty data array.
C9_EmptyActionEmitsNothing ==
    (pc = "animEnd" /\ scene.actions[action_ii] = {})
        => (anim_ret = <<>> /\ anim_data_size = 0)

\* C10: a second export run on the same scene, started with the playhead and
\* active action as the first run left them, writes what the first run wrote.
C10_SecondRunWritesTheSame ==
    (run = 2 /\ pc = "done") => file_content = first_output

\* every block of the export has been encoded: with an armature its block and
\* one block per action, and in every case the mesh block, which comes last
AllBlocksEncoded ==
    /\ Len(export_strings) =
         (IF scene.armature_found THEN 1 + Len(scene.actions) ELSE 0) + 1
    /\ export_strings[Len(export_strings)].kind = "mesh"

\* C11: an export that raised (no mesh, an unresolvable vertex group, a
\* negative weight, an unresolvable bone child) has neither opened nor written
\* the file, and the file is opened only with every block encoded and no error.
C11_NoFileOnFailure ==
    /\ (pc = "failed" => (~file_opened /\ file_content = <<>> /\ ex_error # "none"))
    /\ (file_opened => (ex_error = "none" /\ scene.mesh_found /\ AllBlocksEncoded
                        /\ file_content = export_strings))

\* C11 witness: the last encoder step, the mesh weights, raised on a negative
\* weight after the armature and two actions had been encoded; no file exists.
C11_Witness ==
    /\ pc = "failed"
    /\ ex_error = "RuntimeError: invalid vertex weight"
    /\ Len(export_strings) = 3
    /\ ~file_opened

----------------------------------------------------------------------------
(* Claims about the templates                                              *)

\* the value the mapping gives the key whose placeholder starts at position
\* ii of the template, as a set: empty when no covered placeholder starts there
CoveredAt(s, ii, substitutions) ==
    {k \in 1..Len(substitutions) : MatchKey(s, ii, substitutions[k][1]) # 0}

\* the template with every covered placeholder replaced by its value as given
\* and every other placeholder by nothing, in one pass over the template
RECURSIVE SubstitutedAtOnceFrom(_, _, _)
SubstitutedAtOnceFrom(s, ii, substitutions) ==
    IF ii > Len(s) THEN <<>>
    ELSE LET covered == CoveredAt(s, ii, substitutions)
         IN  IF covered # {}
             THEN LET k == CHOOSE k \in covered : TRUE
                  IN  substitutions[k][2]
                        \o SubstitutedAtOnceFrom(s, MatchKey(s, ii, substitutions[k][1]),
                                                 substitutions)
             ELSE IF MatchAny(s, ii) # 0
                  THEN SubstitutedAtOnceFrom(s, MatchAny(s, ii), substitutions)
                  ELSE <<s[ii]>> \o SubstitutedAtOnceFrom(s, ii + 1, substitutions)

\* C12: format returns the template with every covered placeholder replaced by
\* its value exactly as given (the inserted text is not rewritten or deleted
\* by a later pass) and every placeholder that is not covered replaced by
\* empty text.
C12_ValuesInsertedVerbatim ==
    tpl_pc = "done" => tpl_ret = SubstitutedAtOnceFrom(tpl_content, 1, tpl_subst)

\* the names of the placeholders of the template that the mapping does not cover
UncoveredNames ==
    {name \in FindallFrom(tpl_content, 1) :
        \A k \in 1..Len(tpl_subst) :
            MatchKey(<<"[", "[">> \o name \o <<"]", "]">>, 1, tpl_subst[k][1]) = 0}

\* C13: when format deleted a placeholder that the substitutions did not
\* cover, it has logged a diagnostic that names the unmatched placeholders.
C13_UnmatchedPlaceholdersLogged ==
    (tpl_pc = "done" /\ UncoveredNames # {}) =>
        \E k \in 1..Len(tpl_log) :
            /\ tpl_log[k].msg = "Template substitutions not matched"
            /\ UncoveredNames \subseteq tpl_log[k].names

----------------------------------------------------------------------------
(* Claims about the export with an armature                                *)

\* some vertex weight of mesh m references a vertex group whose name is the
\* name of no bone in am
ReferencesUnresolvedGroup(m, am) ==
    \E v \in 1..Len(m.vertices) :
        \E k \in 1..Len(m.vertices[v]) :
            ListIndexFrom(am, m.vertex_groups[m.vertices[v][k].group + 1], 0) < 0

\* C14: with an armature the export fails on an unresolvable vertex group
\* exactly when a vertex weight references a group that matches no bone: the
\* error implies such a reference, and an export that got past the mesh had
\* none; a group that matches no bone and is referenced by no vertex is no error.
C14_FailsOnlyOnReferencedGroup ==
    /\ (ex_error = "ValueError: not in list"
            => ReferencesUnresolvedGroup(scene.mesh, amap))
    /\ ((scene.armature_found /\ pc \in {"write", "done"})
            => ~ReferencesUnresolvedGroup(scene.mesh, amap))

----------------------------------------------------------------------------
(* Claims about the block formatting                                       *)

IfLine == DirectiveLine("#if defined(__x86_64__) || defined(__i386__)")

\* the positions of the lines that open an architecture-conditional section
ConditionalSections(ret) == {k \in 1..Len(ret) : ret[k] = IfLine}

\* the zeros appended inside the conditional section, 0 without a section
PaddingZeros(ret) ==
    IF ConditionalSections(ret) = {} THEN 0
    ELSE LET k == CHOOSE k \in ConditionalSections(ret) : TRUE
         IN  Len(ret[k + 1].values)

\* the number of elements a block of the type is padded to a multiple of
Alignment(data_type) ==
    CASE data_type \in {"uint8_t", "int8_t"} -> 4
      [] data_type \in {"uint16_t", "int16_t"} -> 2
      [] OTHER -> 1

\* C15: the zeros toExportString appends, inside the architecture-conditional
\* section that ends the string, make the element count a multiple of 4 for
\* 8-bit types and of 2 for 16-bit types, are as few as possible (none, and no
\* section, when the count is already aligned) and none for wider types.
C15_SmallestPadding ==
    (es_pc = "done" /\ es_ret.error = "none") =>
        LET total_count == TotalCountFrom(es_lst, 1)
            ret == es_ret.ret
            pad == PaddingZeros(ret)
        IN  /\ (total_count + pad) % Alignment(es_data_type) = 0
            /\ pad < Alignment(es_data_type)
            /\ SubSeq(ret, 1, Len(es_lst)) = [k \in 1..Len(es_lst) |-> DataLine(es_lst[k])]
            /\ IF pad = 0
               THEN Len(ret) = Len(es_lst)
               ELSE /\ Len(ret) = Len(es_lst) + 3
                    /\ ret[Len(es_lst) + 1] = IfLine
                    /\ ret[Len(es_lst) + 2] = DataLine([k \in 1..pad |-> 0])
                    /\ ret[Len(es_lst) + 3] = DirectiveLine("#endif")

\* C15 witness: a uint8_t block of five elements in two records has been
\* padded with three zeros.
C15_Witness ==
    /\ es_pc = "done"
    /\ es_data_type = "uint8_t"
    /\ Len(es_lst) = 2
    /\ TotalCountFrom(es_lst, 1) = 5
    /\ PaddingZeros(es_ret.ret) = 3

----------------------------------------------------------------------------
(* Claims about the weight algorithm                                       *)

\* the record of the specified algorithm: remap the groups to bones, pad with
\* stubs to at least three entries, sort by weight descending keeping the
\* order of equal weights, keep the first three, total those three, and emit
\* the three bytes toExportU8(weight * 255 / total) and the three bones
SpecifiedWeightRecord(data, vm) ==
    LET kept == SubSeq(SortedByWeight(PadTo3(Remap(data, vm))), 1, 3)
        total == kept[1].weight + kept[2].weight + kept[3].weight
    IN  <<toExportU8(RatDiv(kept[1].weight * 255, total)),
          toExportU8(RatDiv(kept[2].weight * 255, total)),
          toExportU8(RatDiv(kept[3].weight * 255, total)),
          kept[1].group, kept[2].group, kept[3].group>>

\* C16: for every influence list with non-negative weights and positive total
\* normalizedWeightData, of either revision, returns the record of the
\* specified algorithm; influences beyond the top three do not contribute to
\* the total.
C16_SameAsSpecifiedAlgorithm ==
    (w_pc \in {"done", "done_legacy"}
        /\ \A i \in 1..Len(w_vertices) : NonNegativeWithPositiveTotal(w_vertices[i]))
        => /\ w_error = "none"
           /\ Len(w_ret) = Len(w_vertices)
           /\ \A i \in 1..Len(w_ret) :
                w_ret[i] = SpecifiedWeightRecord(w_vertices[i], w_vmap)

----------------------------------------------------------------------------
(* Claims about the declared sizes                                         *)

\* the number of integers in the records from number k on
RECURSIVE IntegersFrom(_, _)
IntegersFrom(data, k) ==
    IF k > Len(data) THEN 0 ELSE Len(data[k]) + IntegersFrom(data, k + 1)

\* C17: ARMATURE_DATA_SIZE equals the number of integers in the adjacency
\* array before padding, the sum over all bones of 1 + number of children.
C17_ArmatureSizeCountsIntegers ==
    (arm_pc = "done" /\ arm_result.error = "none") =>
        /\ arm_result.armature_data_size = IntegersFrom(arm_result.adata, 1)
        /\ arm_result.armature_data_size = IntegersFrom(
               [i \in 1..Len(arm.bones) |-> <<0>> \o arm.children[arm.bones[i]]], 1)

----------------------------------------------------------------------------
(* Claims about termination                                                *)

\* C18: the sampler terminates: the rewind loop is left after finitely many
\* backward jumps and the sampling loop after finitely many forward jumps,
\* every jump moving the playhead to a strictly earlier or strictly later
\* keyframe and failing when there is none.
C18_SamplerTerminates ==
    /\ (pc = "rewind") ~> (pc = "sample")
    /\ (pc = "sample") ~> (pc = "animEnd")

\* C18 witness: from a playhead behind the last keyframe the sampler has gone
\* back to the first keyframe of an action with a keyframe at every frame,
\* sampled each of them and left the sampling loop.
C18_Witness ==
    /\ pc = "animEnd"
    /\ scene.actions[action_ii] = 1..MaxFrame
    /\ frame_current = MaxFrame
    /\ SelectSeq(anim_ret, IsTimestampRecord) = TimestampsOf(1..MaxFrame)

----------------------------------------------------------------------------
(* Claims about the order of the export steps                              *)

MeshEncoded == \E j \in 1..Len(export_strings) : export_strings[j].kind = "mesh"

\* C19: the armature is encoded, then the vertex group map is built, then the
\* mesh is encoded, and only then are the actions sampled: the sampler is not
\* entered, and in the first run no action has been assigned to the armature,
\* before the mesh block exists, and every animation block comes after it.
C19_MeshBeforeAnimations ==
    /\ (pc \in {"rewind", "sample", "animEnd"} => MeshEncoded)
    /\ ((run = 1 /\ active_action # 0) => MeshEncoded)
    /\ \A i \in 1..Len(export_strings) :
         export_strings[i].kind = "animation"
            => \E j \in 1..(i - 1) : export_strings[j].kind = "mesh"

----------------------------------------------------------------------------
(* Claims about the export scale                                           *)

\* the headroom divisor h and round(32767 / h), a tie rounded up
Headroom == 2 ^ vx_discard_bits

RoundedLimit == (2 * 32767 + Headroom) \div (2 * Headroom)

\* coordinate c of vertex k times the mesh scale, and the greatest of them
ScaledCoordinate(k, c) == vx_vertices[k][c] * vx_mesh_scale[c]

MaxAbsScaledCoordinate ==
    SetMax({Abs(ScaledCoordinate(k, c)) : k \in 1..Len(vx_vertices), c \in 1..3})

\* C20: with exportScale = 32767 / (maxAbsScaledCoordinate * h), h >= 1,
\* every encoded vertex component has absolute value at most round(32767 / h),
\* so toExportS16 does not clamp it, and a component equal to the maximum
\* encodes to round(32767 / h).
C20_MaxEncodesToRoundedLimit ==
    vx_pc = "done" =>
        \A k \in 1..Len(vx_vertices) : \A c \in 1..3 :
            /\ Abs(vx_vdata[k][c]) <= RoundedLimit
            /\ vx_vdata[k][c] =
                 toExportS16NoClamp(FloatMul(ScaledCoordinate(k, c), vx_export_scale))
            /\ (Abs(ScaledCoordinate(k, c)) = MaxAbsScaledCoordinate
                    => Abs(vx_vdata[k][c]) = RoundedLimit)

\* C20 as amended: the bound and the absence of clamping as claimed; a
\* component equal to the maximum encodes to round(32767 / h) for every h but
\* 2, where 32767 / h is a tie and it encodes to 16383 or 16384.
C20_MaxEncodesToRoundedLimitButForTie ==
    vx_pc = "done" =>
        \A k \in 1..Len(vx_vertices) : \A c \in 1..3 :
            /\ Abs(vx_vdata[k][c]) <= RoundedLimit
            /\ vx_vdata[k][c] =
                 toExportS16NoClamp(FloatMul(ScaledCoordinate(k, c), vx_export_scale))
            /\ (Abs(ScaledCoordinate(k, c)) = MaxAbsScaledCoordinate
                    => IF Headroom = 2
                       THEN Abs(vx_vdata[k][c]) \in {16383, 16384}
                       ELSE Abs(vx_vdata[k][c]) = RoundedLimit)

\* C20 witness: with h = 2 the greatest coordinate of a mesh scaled by
\* (2, 1, 1) has been encoded as 16383, one below round(32767 / 2).
C20_Witness ==
    /\ vx_pc = "done"
    /\ vx_mesh_scale = <<2, 1, 1>>
    /\ Headroom = 2
    /\ \E k \in 1..Len(vx_vertices) : \E c \in 1..3 :
         /\ Abs(ScaledCoordinate(k, c)) = MaxAbsScaledCoordinate
         /\ Abs(vx_vdata[k][c]) = 16383

----------------------------------------------------------------------------
(* Claims about the ranges of the emitted integers                         *)

\* the values a block's element type can hold
Representable(type) ==
    CASE type = "uint8_t" -> 0..255
      [] type = "int16_t" -> -32768..32767
      [] type = "uint16_t" -> 0..65535

AllWithin(records, range) ==
    \A i \in 1..Len(records) : \A k \in 1..Len(records[i]) : records[i][k] \in range

\* C21: every integer emitted into a block is representable in the block's
\* declared element type: the child counts and child indices of the uint8_t
\* armature block and the weight bytes and bone indices of the uint8_t weight
\* block are in 0..255, and the timestamps, positions and quaternion
\* components of the int16_t animation blocks are in -32768..32767, whatever
\* the keyframe times.
C21_EmittedIntegersRepresentable ==
    /\ \A b \in 1..Len(export_strings) :
         /\ AllWithin(export_strings[b].data, Representable(export_strings[b].type))
         /\ AllWithin(export_strings[b].weights, Representable("uint8_t"))
    /\ (pc \in {"sample", "animEnd"} => AllWithin(anim_ret, Representable("int16_t")))

====
